---- MODULE Spec2Model ----
(***************************************************************************)
(* cargo-dfu: build an ELF, locate a DFU device over USB with a bounded    *)
(* retry loop, convert the ELF to a flat image and download it.            *)
(* Model of src/src/main.rs (main, Opt) and src/src/utils.rs (find_device, *)
(* vendor_map, elf_to_bin, flash_bin).                                     *)
(***************************************************************************)
EXTENDS Integers, Sequences, FiniteSets, TLC

\* ---------------------------------------------------------------- bounds
MaxRetries == 2     \* largest value of --retries explored
MaxDevices == 2     \* largest number of USB devices on the bus in one attempt
MaxSegments == 3    \* largest number of program headers of an extracted artifact

\* ------------------------------------------------------------- Option / Result
None == [tag |-> "None"]
Some(x) == [tag |-> "Some", val |-> x]
Ok(x) == [tag |-> "Ok", val |-> x]
Err(e) == [tag |-> "Err", val |-> e]
Panicked(m) == [tag |-> "Panic", val |-> m]

\* ------------------------------------------------------------- vendor_map
\* utils.rs:78-83.  0x0483 = 1155, 0xdf11 = 57105, 0x28e9 = 10473, 0x0189 = 393
vendor_map ==
  [stm32 |-> << <<1155, 57105>> >>, gd32vf103 |-> << <<10473, 393>> >>]

\* A HashMap is iterated in an unspecified order: every permutation of its keys.
VendorOrders ==
  {s \in [1..Cardinality(DOMAIN vendor_map) -> DOMAIN vendor_map] :
     \A i, j \in DOMAIN s : i # j => s[i] # s[j]}

\* Vec::contains
contains(seq, x) == \E i \in DOMAIN seq : seq[i] = x

\* ------------------------------------------------------------- the USB bus
\* One connected device: its descriptor ids and whether libusb can open it.
\* (4660, 22136) = (0x1234, 0x5678) is a device that is in no table entry.
DeviceKinds ==
  { [vid |-> p[1], pid |-> p[2], openable |-> o] :
      p \in { <<1155, 57105>>, <<10473, 393>>, <<4660, 22136>> }, o \in BOOLEAN }

\* Every enumeration (ordered device list) of at most MaxDevices devices.
Buses == UNION { [1..n -> DeviceKinds] : n \in 0..MaxDevices }

\* rusb::open_device_with_vid_pid: the first device of the enumeration with
\* these ids is opened; None when there is none or when opening it fails.
\* A handle records which device of the enumeration it is open on.
FirstWithIds(devs, v, p) ==
  IF \E i \in DOMAIN devs : devs[i].vid = v /\ devs[i].pid = p
  THEN CHOOSE i \in DOMAIN devs :
         /\ devs[i].vid = v /\ devs[i].pid = p
         /\ \A j \in DOMAIN devs : (devs[j].vid = v /\ devs[j].pid = p) => i <= j
  ELSE 0

open_device_with_vid_pid(devs, v, p) ==
  LET i == FirstWithIds(devs, v, p)
  IN IF i # 0 /\ devs[i].openable
     THEN Some([idx |-> i, vid |-> v, pid |-> p])
     ELSE None

\* ------------------------------------------------------------- one probe attempt
\* The closure handed to retry() in find_device (utils.rs:89-137).  Its value:
\*   device : Ok(handle) | Err("no device found") | Panic(message)
\*   opens  : the handles opened during the attempt, in order
\*   lines  : what the attempt printed
default_error == Err("no device found")

\* utils.rs:91-92
probe_explicit(devs, v, p) ==
  LET h == open_device_with_vid_pid(devs, v, p)
  IN [device |-> IF h.tag = "Some" THEN Ok(h.val) ELSE default_error,
      opens  |-> IF h.tag = "Some" THEN <<h.val>> ELSE <<>>,
      lines  |-> <<>>]

\* utils.rs:101-106: for (v, p) in products { if let Some(d) = open { device = Ok(d); break } }
RECURSIVE products_loop(_, _, _)
products_loop(devs, products, i) ==
  IF i > Len(products) THEN [device |-> default_error, opens |-> <<>>]
  ELSE LET h == open_device_with_vid_pid(devs, products[i][1], products[i][2])
       IN IF h.tag = "Some"
          THEN [device |-> Ok(h.val), opens |-> <<h.val>>]
          ELSE products_loop(devs, products, i + 1)

\* (variant: the table is indexed with the name, which panics on an unknown key)
probe_chip_index(devs, c) ==
  IF c \in DOMAIN vendor_map
  THEN LET r == products_loop(devs, vendor_map[c], 1)
       IN [device |-> r.device, opens |-> r.opens, lines |-> << <<"Searching", c>> >>]
  ELSE [device |-> Panicked("key not found"), opens |-> <<>>,
        lines |-> << <<"Searching", c>> >>]

\* utils.rs:93-109
probe_chip(devs, c) ==
  LET r == IF c \in DOMAIN vendor_map
           THEN products_loop(devs, vendor_map[c], 1)
           ELSE [device |-> default_error, opens |-> <<>>]
  IN [device |-> r.device, opens |-> r.opens, lines |-> << <<"Searching", c>> >>]

\* (variant: the enumerated device is opened without the table lookup)
vendor_loop_any_device(devs, d, order, k, acc) ==
  IF k > Len(order) THEN acc
  ELSE LET h == open_device_with_vid_pid(devs, d.vid, d.pid)
       IN IF h.tag = "Some"
          THEN [device |-> Ok(h.val), opens |-> Append(acc.opens, h.val)]
          ELSE acc

\* utils.rs:125-132: the loop over the table for one enumerated device d.
\* acc = [device, opens] so far; the break leaves this loop only.
RECURSIVE vendor_loop(_, _, _, _, _)
vendor_loop(devs, d, order, k, acc) ==
  IF k > Len(order) THEN acc
  ELSE IF contains(vendor_map[order[k]], <<d.vid, d.pid>>)
       THEN LET h == open_device_with_vid_pid(devs, d.vid, d.pid)
            IN IF h.tag = "Some"
               THEN [device |-> Ok(h.val), opens |-> Append(acc.opens, h.val)]
               ELSE vendor_loop(devs, d, order, k + 1, acc)
       ELSE vendor_loop(devs, d, order, k + 1, acc)

\* utils.rs:124-133: for d in devices { ... }: runs over every enumerated device
RECURSIVE devices_loop(_, _, _, _)
devices_loop(devs, order, i, acc) ==
  IF i > Len(devs) THEN acc
  ELSE devices_loop(devs, order, i + 1, vendor_loop(devs, devs[i], order, 1, acc))

\* (variant: an enumeration error counts as an empty device list)
probe_any_enum_error_empty(devs, enum_ok, order) ==
  LET seen == IF enum_ok THEN devs ELSE <<>>
      r == devices_loop(seen, order, 1, [device |-> default_error, opens |-> <<>>])
  IN [device |-> r.device, opens |-> r.opens,
      lines |-> << <<"Searching", "known vid/pid pair">> >>]

\* utils.rs:110-136; enum_ok = FALSE: rusb::devices() returned an error
probe_any(devs, enum_ok, order) ==
  IF ~enum_ok
  THEN [device |-> Panicked("Error with Libusb"), opens |-> <<>>,
        lines |-> << <<"Searching", "known vid/pid pair">> >>]
  ELSE LET r == devices_loop(devs, order, 1, [device |-> default_error, opens |-> <<>>])
       IN [device |-> r.device, opens |-> r.opens,
           lines |-> << <<"Searching", "known vid/pid pair">> >>]

\* (variant: the chip name is tested before the id pair)
criteria_chip_first(o) ==
  IF o.chip.tag = "Some" THEN "chip"
  ELSE IF o.vid.tag = "Some" /\ o.pid.tag = "Some" THEN "explicit"
  ELSE "any"

\* utils.rs:91, 93, 110: which branch of the closure runs
criteria(o) ==
  IF o.vid.tag = "Some" /\ o.pid.tag = "Some" THEN "explicit"
  ELSE IF o.chip.tag = "Some" THEN "chip"
  ELSE "any"

\* utils.rs:89-137, the closure
probe(o, devs, enum_ok, order) ==
  IF criteria(o) = "explicit" THEN probe_explicit(devs, o.vid.val, o.pid.val)
  ELSE IF criteria(o) = "chip" THEN probe_chip(devs, o.chip.val)
  ELSE probe_any(devs, enum_ok, order)

\* ------------------------------------------------------------- u64 arithmetic
\* A u64 is four 16-bit limbs, least significant first, so that 2^32 and 2^64
\* are exact although the checker's integers are 32-bit.
LimbBase == 2^16
U64 == [1..4 -> 0..(LimbBase - 1)]
u64(l0, l1, l2, l3) == <<l0, l1, l2, l3>>
\* u64::from of a small natural (below 2^31)
u64_from(n) == <<n % LimbBase, n \div LimbBase, 0, 0>>

add_carry(a, b, i) ==
  LET c1 == (a[1] + b[1]) \div LimbBase
      c2 == (a[2] + b[2] + c1) \div LimbBase
      c3 == (a[3] + b[3] + c2) \div LimbBase
      c4 == (a[4] + b[4] + c3) \div LimbBase
  IN <<0, c1, c2, c3, c4>>[i]
\* a + b modulo 2^64, and whether it overflowed
u64_add(a, b) ==
  [val |-> [i \in 1..4 |-> (a[i] + b[i] + add_carry(a, b, i)) % LimbBase],
   overflow |-> add_carry(a, b, 5) = 1]

sub_borrow(a, b, i) ==
  LET b1 == IF a[1] < b[1] THEN 1 ELSE 0
      b2 == IF a[2] < b[2] + b1 THEN 1 ELSE 0
      b3 == IF a[3] < b[3] + b2 THEN 1 ELSE 0
      b4 == IF a[4] < b[4] + b3 THEN 1 ELSE 0
  IN <<0, b1, b2, b3, b4>>[i]
\* a - b modulo 2^64, and whether it underflowed
u64_sub(a, b) ==
  [val |-> [i \in 1..4 |-> (a[i] - b[i] - sub_borrow(a, b, i)) % LimbBase],
   overflow |-> sub_borrow(a, b, 5) = 1]

\* a < b
u64_lt(a, b) == \E i \in 1..4 : a[i] < b[i] /\ \A j \in (i + 1)..4 : a[j] = b[j]

\* u32::try_from (utils.rs:59)
u32_try_from(a) == IF a[3] = 0 /\ a[4] = 0 THEN Ok(a) ELSE Err("TryFromIntError")

\* utils.rs:11-16: UtilError::Dfu(e), UtilError::Elf(e), UtilError::File(e)
UtilError(variant, e) == [variant |-> variant, inner |-> e]

\* ------------------------------------------------------------- elf_to_bin
\* An artifact: whether the file can be opened and read, whether goblin parses
\* it, the ELF header size, the file bytes and the program headers.
\* overflow_checks: the build of this tool traps integer overflow (debug
\* profile) or wraps (release profile).
\* A Vec<u8> is its length (a usize: 64 bits) and its non-zero bytes as
\* <<index, value>>, indices from 0; a byte that is not listed is 0.  A buffer
\* of 2^32 bytes is a value like any other.
vec_new == [len |-> u64_from(0), nonzero |-> {}]

\* Vec::extend_from_slice (utils.rs:52)
extend_from_slice(v, slice) ==
  [len |-> u64_add(v.len, u64_from(Len(slice))).val,
   nonzero |-> v.nonzero \cup
                 { <<u64_add(v.len, u64_from(k - 1)).val, slice[k]>> :
                     k \in {j \in DOMAIN slice : slice[j] # 0} }]

\* (variant: the filter without its is_read() test)
qualifies_ignores_is_read(ph, e_ehsize) ==
  /\ ph.p_type = "PT_LOAD"
  /\ ph.p_filesz > 0
  /\ ph.p_offset >= e_ehsize

\* utils.rs:33-38
qualifies(ph, e_ehsize) ==
  /\ ph.p_type = "PT_LOAD"
  /\ ph.p_filesz > 0
  /\ ph.p_offset >= e_ehsize
  /\ ph.is_read

\* Vec::resize(new_len, 0) with new_len a usize (64-bit host).  A new length
\* that is not above the old one truncates.  Growing above isize::MAX panics;
\* growing to 2^47 bytes or more exceeds the address space and aborts; whether
\* a buffer of 2 GiB or more is granted depends on the memory of the host
\* (mem_ok), a refusal aborts the process.
resize(data, new_len, mem_ok) ==
  IF ~u64_lt(data.len, new_len)
  THEN Ok([len |-> new_len,
           nonzero |-> {e \in data.nonzero : u64_lt(e[1], new_len)}])
  ELSE IF new_len[4] >= LimbBase \div 2 THEN Panicked("capacity overflow")
  ELSE IF new_len[4] > 0 \/ new_len[3] >= LimbBase \div 2
       THEN [tag |-> "Abort", val |-> "memory allocation failed"]
  ELSE IF (new_len[3] > 0 \/ new_len[2] >= LimbBase \div 2) /\ ~mem_ok
       THEN [tag |-> "Abort", val |-> "memory allocation failed"]
  ELSE Ok([len |-> new_len, nonzero |-> data.nonzero])

\* (variant: the gap is measured from the start of the data, not from its end)
fill_gap_resize_to_difference(data, p_paddr, last_address, overflow_checks, mem_ok) ==
  LET d == u64_sub(p_paddr, last_address)
  IN IF d.overflow /\ overflow_checks THEN Panicked("attempt to subtract with overflow")
     ELSE resize(data, d.val, mem_ok)

\* utils.rs:48-49: the gap fill before a segment that is not the first
fill_gap(data, p_paddr, last_address, overflow_checks, mem_ok) ==
  LET d == u64_sub(p_paddr, last_address)
      n == u64_add(data.len, d.val)
  IN IF d.overflow /\ overflow_checks THEN Panicked("attempt to subtract with overflow")
     ELSE IF n.overflow /\ overflow_checks THEN Panicked("attempt to add with overflow")
     ELSE resize(data, n.val, mem_ok)

\* utils.rs:40-55: one pass of the loop body; st = [start_address, last_address, data].
\* buffer[p_offset..] panics when p_offset is past the end of the file, and
\* [..p_filesz] when fewer than p_filesz bytes are left.
segment_step(st, i, ph, buffer, overflow_checks, mem_ok) ==
  LET filled == IF i = 1 THEN Ok(st.data)
                ELSE fill_gap(st.data, ph.p_paddr, st.last_address, overflow_checks, mem_ok)
      last == u64_add(ph.p_paddr, u64_from(ph.p_filesz))
  IN IF filled.tag # "Ok" THEN filled
     ELSE IF ph.p_offset > Len(buffer)
          THEN Panicked("range start index out of range for slice")
     ELSE IF ph.p_filesz > Len(buffer) - ph.p_offset
          THEN Panicked("range end index out of range for slice")
     ELSE IF last.overflow /\ overflow_checks THEN Panicked("attempt to add with overflow")
     ELSE Ok([start_address |-> IF i = 1 THEN ph.p_paddr ELSE st.start_address,
              last_address  |-> last.val,
              data |-> extend_from_slice(filled.val,
                         SubSeq(buffer, ph.p_offset + 1, ph.p_offset + ph.p_filesz))])

RECURSIVE segments_loop(_, _, _, _, _, _)
segments_loop(st, i, phs, buffer, overflow_checks, mem_ok) ==
  IF i > Len(phs) THEN Ok(st)
  ELSE LET r == segment_step(st, i, phs[i], buffer, overflow_checks, mem_ok)
       IN IF r.tag # "Ok" THEN r
          ELSE segments_loop(r.val, i + 1, phs, buffer, overflow_checks, mem_ok)

\* utils.rs:19-62.  Ok([data, start_address]) | Err(UtilError) | Panic(message)
\* | Abort (the allocator gave up)
elf_to_bin(artifact, overflow_checks, mem_ok) ==
  IF ~artifact.file_ok THEN Err(UtilError("File", [kind |-> "Io", err |-> "NotFound"]))
  ELSE IF ~artifact.parse_ok THEN Err(UtilError("Elf", [kind |-> "Malformed", err |-> "parse"]))
  ELSE LET Q(ph) == qualifies(ph, artifact.e_ehsize)
           r == segments_loop([start_address |-> u64_from(0),
                               last_address |-> u64_from(0), data |-> vec_new],
                              1, SelectSeq(artifact.program_headers, Q),
                              artifact.buffer, overflow_checks, mem_ok)
       IN IF r.tag # "Ok" THEN r
          ELSE IF u32_try_from(r.val.start_address).tag = "Err"
               THEN Err(UtilError("Elf", [kind |-> "Malformed", err |-> "TryFromIntError"]))
          ELSE Ok([data |-> r.val.data, start_address |-> r.val.start_address])

\* ------------------------------------------------------------- flash_bin
\* dfu_libusb::Error values the DFU library can return
DfuErrors ==
  { [kind |-> "LibUsb", err |-> "NoDevice"],
    [kind |-> "LibUsb", err |-> "Timeout"],
    [kind |-> "CouldNotOpenDevice", err |-> "none"],
    [kind |-> "Dfu", err |-> "StatusError"] }

\* what DfuLibusb::open and download_from_slice can return
DfuResults == {Ok("unit")} \cup {Err(e) : e \in DfuErrors}

\* (variant: the result of download_from_slice is dropped)
flash_bin_drops_download_error(bytes, d, ctx_ok, open_res, dl_res) ==
  IF ~ctx_ok
  THEN [result |-> Panicked("called Result::unwrap() on an Err value"),
        session |-> None, downloaded |-> None]
  ELSE IF open_res.tag = "Err"
  THEN [result |-> Err(UtilError("Dfu", open_res.val)),
        session |-> None, downloaded |-> None]
  ELSE [result |-> Ok("unit"),
        session |-> Some(<<d.vid, d.pid, 0, 0>>), downloaded |-> Some(bytes)]

\* utils.rs:64-76.  d is the device of the handle find_device returned.
\*   result     : Ok | Err(UtilError::Dfu(e)) | Panic
\*   session    : the (vid, pid, interface, alt) the DFU session was opened with
\*   downloaded : the bytes handed to download_from_slice
flash_bin(bytes, d, ctx_ok, open_res, dl_res) ==
  IF ~ctx_ok
  THEN [result |-> Panicked("called Result::unwrap() on an Err value"),
        session |-> None, downloaded |-> None]
  ELSE IF open_res.tag = "Err"
  THEN [result |-> Err(UtilError("Dfu", open_res.val)),
        session |-> None, downloaded |-> None]
  ELSE IF dl_res.tag = "Err"
  THEN [result |-> Err(UtilError("Dfu", dl_res.val)),
        session |-> Some(<<d.vid, d.pid, 0, 0>>), downloaded |-> Some(bytes)]
  ELSE [result |-> Ok("unit"),
        session |-> Some(<<d.vid, d.pid, 0, 0>>), downloaded |-> Some(bytes)]

\* (variant: the match without its NoDevice arm, as in main.rs:115-117)
match_flash_result_no_benign_arm(r) ==
  IF r.tag = "Err"
  THEN [outcome |-> "Failure", cause |-> Some(r.val),
        lines |-> << <<"Error flashing binary", r.val>> >>]
  ELSE [outcome |-> "Success", cause |-> None, lines |-> <<>>]

\* main.rs:119-125: the match on flash_bin's result.
\*   outcome : "Success" | "BenignAbsence" | "Failure" (with the cause)
\*   lines   : what the arm prints
match_flash_result(r) ==
  IF r.tag = "Err" /\ r.val = UtilError("Dfu", [kind |-> "LibUsb", err |-> "NoDevice"])
  THEN [outcome |-> "BenignAbsence", cause |-> None, lines |-> <<>>]
  ELSE IF r.tag = "Err"
  THEN [outcome |-> "Failure", cause |-> Some(r.val),
        lines |-> << <<"Error flashing binary", r.val>> >>]
  ELSE [outcome |-> "Success", cause |-> None, lines |-> <<>>]

\* ------------------------------------------------------------- retry
\* retry::retry(Fixed::from_millis(delay).take(retries), operation), utils.rs:89
\* and result.ok(), utils.rs:138.  The operation runs first; after a failure the
\* next delay of the iterator is slept, and when the iterator is exhausted the
\* error is returned.  remaining = delays left in the iterator.
\* (variant: gives up one delay early, as if the budget counted attempts)
retry_step_counts_attempts(device, remaining) ==
  IF device.tag = "Ok" THEN [act |-> "return", result |-> Some(device.val)]
  ELSE IF device.tag = "Panic" THEN [act |-> "panic", result |-> None]
  ELSE IF remaining > 1 THEN [act |-> "sleep", result |-> None]
  ELSE [act |-> "return", result |-> None]

\* (variant: a successful attempt is retried while delays are left)
retry_step_retries_ok(device, remaining) ==
  IF device.tag = "Panic" THEN [act |-> "panic", result |-> None]
  ELSE IF remaining > 0 THEN [act |-> "sleep", result |-> None]
  ELSE IF device.tag = "Ok" THEN [act |-> "return", result |-> Some(device.val)]
  ELSE [act |-> "return", result |-> None]

retry_step(device, remaining) ==
  IF device.tag = "Ok" THEN [act |-> "return", result |-> Some(device.val)]
  ELSE IF device.tag = "Panic" THEN [act |-> "panic", result |-> None]
  ELSE IF remaining > 0 THEN [act |-> "sleep", result |-> None]
  ELSE [act |-> "return", result |-> None]

\* ------------------------------------------------------------- exit statuses
AbsenceExitCode == 101   \* main.rs:96  std::process::exit(101)
PanicExitCode == 101     \* a panic that unwinds out of main ends the process with 101
SuccessExitCode == 0     \* main returns

\* main.rs:137-141 (unix): status.code().or_else(|| status.signal()).unwrap_or(1)
exit_with_process_status(status) ==
  IF status.code.tag = "Some" THEN status.code.val
  ELSE IF status.signal.tag = "Some" THEN status.signal.val
  ELSE 1

\* ExitStatus::success
success(status) == status.code = Some(0)

\* exit statuses of the `cargo build` child: success, failures, killed by a signal
BuildStatuses ==
  { [code |-> Some(0), signal |-> None], [code |-> Some(1), signal |-> None],
    [code |-> Some(101), signal |-> None], [code |-> None, signal |-> Some(9)] }

\* ------------------------------------------------------------- inputs
\* main.rs:156-192, the options the locator reads
Opts ==
  [ vid : {None, Some(1155)},
    pid : {None, Some(57105), Some(22136)},
    chip : {None, Some("stm32"), Some("gd32vf103"), Some("nrf52")},
    list_chips : BOOLEAN,
    retries : 0..MaxRetries,
    delay : {10, 500} ]

program_header(type, filesz, offset, paddr, read) ==
  [p_type |-> type, p_filesz |-> filesz, p_offset |-> offset, p_paddr |-> paddr,
   is_read |-> read]

\* the build artifacts the pipeline is run on
Artifacts ==
  LET buf == <<127, 69, 11, 12, 13, 14>>
      a(phs) == [file_ok |-> TRUE, parse_ok |-> TRUE, e_ehsize |-> 2,
                 buffer |-> buf, program_headers |-> phs]
  IN { [a(<<>>) EXCEPT !.file_ok = FALSE],
       [a(<<>>) EXCEPT !.parse_ok = FALSE],
       a(<<>>),
       a(<< program_header("PT_LOAD", 2, 2, u64(0, 2048, 0, 0), TRUE) >>),
       a(<< program_header("PT_LOAD", 2, 2, u64(0, 2048, 0, 0), TRUE),
            program_header("PT_NOTE", 1, 3, u64(0, 0, 0, 0), TRUE),
            program_header("PT_LOAD", 2, 4, u64(5, 2048, 0, 0), TRUE) >>),
       a(<< program_header("PT_LOAD", 2, 2, u64(0, 0, 1, 0), TRUE) >>),
       a(<< program_header("PT_LOAD", 2, 4, u64(5, 2048, 0, 0), TRUE),
            program_header("PT_LOAD", 2, 2, u64(0, 2048, 0, 0), TRUE) >>),
       a(<< program_header("PT_LOAD", 2, 2, u64(0, 2048, 0, 0), TRUE),
            program_header("PT_LOAD", 2, 4, u64(2, 2048, 1, 0), TRUE) >>) }

\* ------------------------------------------------------------- the program
VARIABLES
  pc,           \* the statement of main about to run; "exited" once the process ended
  opt,          \* the parsed command line (Opt)
  out,          \* lines printed to stdout, in order
  trace,        \* the operations performed, in order; "enumeration_failed" follows
                \* a probe whose call of rusb::devices() (utils.rs:116) returned Err
  exit_status,  \* None while running, Some(status) once the process ended
  panic,        \* Some(message) when the process ended by a panic
  remaining,    \* delays left in the iterator handed to retry()
  bus,          \* the enumeration the probe attempt just made ran against
  handles,      \* every device handle opened by find_device, in order
  found,        \* the value find_device returned, once it returned
  binary,       \* Some([data, start_address]) once elf_to_bin returned Ok
  flash,        \* what flash_bin did and returned, once it ran
  dfu_lib,      \* what the USB/DFU library answered to flash_bin's calls
  outcome,      \* the arm of main's match that ran: outcome and cause
  elf_input,    \* the artifact, build profile and host of an extraction run on its own
  elf_result    \* Some(what elf_to_bin returned), once it ran

vars == <<pc, opt, out, trace, exit_status, panic, remaining, bus, handles, found,
          binary, flash, dfu_lib, outcome, elf_input, elf_result>>

\* (variant: the image is extracted before the device is searched for)
next_stmt_extract_first(stmt) ==
  CASE stmt = "query_project" -> "cargo_build"
    [] stmt = "cargo_build"   -> "elf_to_bin"
    [] stmt = "elf_to_bin"    -> "find_device"
    [] stmt = "find_device"   -> "report_found"
    [] stmt = "report_found"  -> "flash_bin"
    [] stmt = "flash_bin"     -> "exited"

\* main.rs:12-134: the statement that follows stmt when stmt completes normally
next_stmt(stmt) ==
  CASE stmt = "query_project" -> "cargo_build"
    [] stmt = "cargo_build"   -> "find_device"
    [] stmt = "find_device"   -> "report_found"
    [] stmt = "report_found"  -> "elf_to_bin"
    [] stmt = "elf_to_bin"    -> "flash_bin"
    [] stmt = "flash_bin"     -> "exited"

Init ==
  /\ pc = "start"
  /\ opt \in Opts
  /\ out = <<>>
  /\ trace = <<>>
  /\ exit_status = None
  /\ panic = None
  /\ remaining = opt.retries
  /\ bus = <<>>
  /\ handles = <<>>
  /\ found = None
  /\ binary = None
  /\ flash = None
  /\ dfu_lib = None
  /\ outcome = None
  /\ elf_input = None
  /\ elf_result = None

\* a panic unwinds out of main
Panic(msg) ==
  /\ pc' = "exited"
  /\ exit_status' = Some(PanicExitCode)
  /\ panic' = Some(msg)

\* (variant: the listing without its return, the pipeline goes on)
ListChips_falls_through ==
  /\ pc = "start"
  /\ opt.list_chips
  /\ \E order \in VendorOrders :
       out' = out \o [i \in 1..Len(order) |-> <<"chip", order[i]>>]
  /\ trace' = Append(trace, "list_chips")
  /\ pc' = next_stmt("query_project")
  /\ UNCHANGED <<opt, exit_status, panic, remaining, bus, handles, found, binary, flash,
                 dfu_lib, outcome, elf_input, elf_result>>

\* main.rs:20-25
ListChips ==
  /\ pc = "start"
  /\ opt.list_chips
  /\ \E order \in VendorOrders :
       out' = out \o [i \in 1..Len(order) |-> <<"chip", order[i]>>]
  /\ trace' = Append(trace, "list_chips")
  /\ pc' = "exited"
  /\ exit_status' = Some(SuccessExitCode)
  /\ UNCHANGED <<opt, panic, remaining, bus, handles, found, binary, flash, dfu_lib, outcome, elf_input, elf_result>>

\* main.rs:28-56: Project::query(".").expect(..) and project.path(..).expect(..)
QueryProject ==
  /\ pc = "start"
  /\ ~opt.list_chips
  /\ trace' = Append(trace, "query_project")
  /\ \E query_ok \in BOOLEAN, path_ok \in BOOLEAN :
       IF ~query_ok THEN Panic("Couldn't parse the Cargo.toml")
       ELSE IF ~path_ok THEN Panic("Couldn't find the build result")
       ELSE pc' = next_stmt("query_project") /\ UNCHANGED <<exit_status, panic>>
  /\ UNCHANGED <<opt, out, remaining, bus, handles, found, binary, flash, dfu_lib, outcome, elf_input, elf_result>>

\* main.rs:59-90: run `cargo build`, leave with its status when it failed
CargoBuild ==
  /\ pc = "cargo_build"
  /\ trace' = Append(trace, "cargo_build")
  /\ \E spawn_ok \in BOOLEAN, status \in BuildStatuses :
       IF ~spawn_ok
       THEN Panic("called Result::unwrap() on an Err value") /\ UNCHANGED out
       ELSE IF ~success(status)
       THEN /\ pc' = "exited"
            /\ exit_status' = Some(exit_with_process_status(status))
            /\ UNCHANGED <<out, panic>>
       ELSE /\ pc' = next_stmt("cargo_build")
            /\ out' = Append(out, <<"Looping", (opt.retries * opt.delay) \div 1000>>)
            /\ UNCHANGED <<exit_status, panic>>
  /\ UNCHANGED <<opt, remaining, bus, handles, found, binary, flash, dfu_lib, outcome, elf_input, elf_result>>

\* utils.rs:85-139: one call of the operation inside retry()
Probe ==
  /\ pc = "find_device"
  /\ \E devs \in Buses, enum_ok \in BOOLEAN, order \in VendorOrders :
       LET r == probe(opt, devs, enum_ok, order)
           step == retry_step(r.device, remaining)
       IN /\ bus' = devs
          /\ trace' = IF criteria(opt) = "any" /\ ~enum_ok
                       THEN trace \o <<"probe", "enumeration_failed">>
                       ELSE Append(trace, "probe")
          /\ out' = out \o r.lines
          /\ handles' = handles \o r.opens
          /\ CASE step.act = "panic" ->
                    Panic(r.device.val) /\ UNCHANGED found
               [] step.act = "sleep" ->
                    pc' = "sleep" /\ UNCHANGED <<found, exit_status, panic>>
               [] step.act = "return" ->
                    /\ found' = step.result
                    /\ pc' = IF step.result.tag = "Some"
                             THEN next_stmt("find_device") ELSE "no_device"
                    /\ UNCHANGED <<exit_status, panic>>
  /\ UNCHANGED <<opt, remaining, binary, flash, dfu_lib, outcome, elf_input, elf_result>>

\* retry(): sleep(delay) between two calls of the operation
Sleep ==
  /\ pc = "sleep"
  /\ trace' = Append(trace, "sleep")
  /\ remaining' = remaining - 1
  /\ bus' = <<>>
  /\ pc' = "find_device"
  /\ UNCHANGED <<opt, out, exit_status, panic, handles, found, binary, flash, dfu_lib, outcome, elf_input, elf_result>>

\* main.rs:91-97: the else branch of let Some(d) = find_device(&opt)
NoDevice ==
  /\ pc = "no_device"
  /\ out' = Append(out, <<"Error finding connected devices", 0>>)
  /\ pc' = "exited"
  /\ exit_status' = Some(AbsenceExitCode)
  /\ bus' = <<>>
  /\ UNCHANGED <<opt, trace, panic, remaining, handles, found, binary, flash, dfu_lib, outcome, elf_input, elf_result>>

\* main.rs:99-108: print the device strings (unwrap) and the artifact path
ReportFound ==
  /\ pc = "report_found"
  /\ bus' = <<>>
  /\ \E strings_ok \in BOOLEAN :
       IF strings_ok
       THEN /\ out' = out \o << <<"Found", found.val>>, <<"Flashing", 0>> >>
            /\ pc' = next_stmt("report_found")
            /\ UNCHANGED <<exit_status, panic>>
       ELSE Panic("called Result::unwrap() on an Err value") /\ UNCHANGED out
  /\ UNCHANGED <<opt, trace, remaining, handles, found, binary, flash, dfu_lib, outcome, elf_input, elf_result>>

\* (variant: elf_to_bin(path).unwrap_or_default(), an error gives an empty image)
Extract_unwrap_or_default ==
  /\ pc = "elf_to_bin"
  /\ trace' = Append(trace, "elf_to_bin")
  /\ \E artifact \in Artifacts, overflow_checks \in BOOLEAN, mem_ok \in BOOLEAN :
       LET r == elf_to_bin(artifact, overflow_checks, mem_ok)
       IN /\ elf_result' = Some(r)
          /\ CASE r.tag = "Ok" ->
                 /\ binary' = Some(r.val)
                 /\ pc' = next_stmt("elf_to_bin")
                 /\ UNCHANGED <<exit_status, panic>>
            [] r.tag = "Err" ->
                 /\ binary' = Some([data |-> vec_new, start_address |-> u64_from(0)])
                 /\ pc' = next_stmt("elf_to_bin")
                 /\ UNCHANGED <<exit_status, panic>>
            [] r.tag = "Panic" ->
                 Panic(r.val) /\ UNCHANGED binary
            [] r.tag = "Abort" ->
                 /\ pc' = "exited" /\ exit_status' = Some(134)
                 /\ UNCHANGED <<binary, panic>>
  /\ UNCHANGED <<opt, out, remaining, bus, handles, found, flash, dfu_lib, outcome, elf_input>>

\* main.rs:110: let (binary, _) = elf_to_bin(path).unwrap()
Extract ==
  /\ pc = "elf_to_bin"
  /\ trace' = Append(trace, "elf_to_bin")
  /\ \E artifact \in Artifacts, overflow_checks \in BOOLEAN, mem_ok \in BOOLEAN :
       LET r == elf_to_bin(artifact, overflow_checks, mem_ok)
       IN /\ elf_result' = Some(r)
          /\ CASE r.tag = "Ok" ->
                 /\ binary' = Some(r.val)
                 /\ pc' = next_stmt("elf_to_bin")
                 /\ UNCHANGED <<exit_status, panic>>
            [] r.tag = "Err" ->
                 Panic("called Result::unwrap() on an Err value") /\ UNCHANGED binary
            [] r.tag = "Panic" ->
                 Panic(r.val) /\ UNCHANGED binary
            [] r.tag = "Abort" ->
                 /\ pc' = "exited" /\ exit_status' = Some(134)
                 /\ UNCHANGED <<binary, panic>>
  /\ UNCHANGED <<opt, out, remaining, bus, handles, found, flash, dfu_lib, outcome, elf_input>>

\* (variant: flash_bin(..).unwrap(), a transfer error panics)
Flash_unwrap ==
  /\ pc = "flash_bin"
  /\ trace' = Append(trace, "flash_bin")
  /\ \E ctx_ok \in BOOLEAN, open_res \in DfuResults, dl_res \in DfuResults :
       LET f == flash_bin(binary.val.data, found.val, ctx_ok, open_res, dl_res)
           m == match_flash_result(f.result)
       IN /\ flash' = Some(f)
          /\ dfu_lib' = Some([ctx_ok |-> ctx_ok, open_res |-> open_res, dl_res |-> dl_res])
          /\ IF f.result.tag = "Panic"
             THEN Panic(f.result.val) /\ UNCHANGED <<out, outcome>>
             ELSE IF m.outcome = "Failure"
             THEN /\ outcome' = Some([outcome |-> m.outcome, cause |-> m.cause])
                  /\ Panic("called Result::unwrap() on an Err value")
                  /\ UNCHANGED out
             ELSE /\ outcome' = Some([outcome |-> m.outcome, cause |-> m.cause])
                  /\ out' = out \o m.lines \o << <<"Finished", 0>> >>
                  /\ pc' = next_stmt("flash_bin")
                  /\ exit_status' = Some(SuccessExitCode)
                  /\ UNCHANGED panic
  /\ UNCHANGED <<opt, remaining, bus, handles, found, binary, elf_input, elf_result>>

\* main.rs:119-134: flash_bin, the match on its result, the final report
Flash ==
  /\ pc = "flash_bin"
  /\ trace' = Append(trace, "flash_bin")
  /\ \E ctx_ok \in BOOLEAN, open_res \in DfuResults, dl_res \in DfuResults :
       LET f == flash_bin(binary.val.data, found.val, ctx_ok, open_res, dl_res)
           m == match_flash_result(f.result)
       IN /\ flash' = Some(f)
          /\ dfu_lib' = Some([ctx_ok |-> ctx_ok, open_res |-> open_res, dl_res |-> dl_res])
          /\ IF f.result.tag = "Panic"
             THEN Panic(f.result.val) /\ UNCHANGED <<out, outcome>>
             ELSE /\ outcome' = Some([outcome |-> m.outcome, cause |-> m.cause])
                  /\ out' = out \o m.lines \o << <<"Finished", 0>> >>
                  /\ pc' = next_stmt("flash_bin")
                  /\ exit_status' = Some(SuccessExitCode)
                  /\ UNCHANGED panic
  /\ UNCHANGED <<opt, remaining, bus, handles, found, binary, elf_input, elf_result>>

Next ==
  \/ ListChips
  \/ QueryProject
  \/ CargoBuild
  \/ Probe
  \/ Sleep
  \/ NoDevice
  \/ ReportFound
  \/ Extract
  \/ Flash

Spec == Init /\ [][Next]_vars


\* ------------------------------------------------------------- the extractor on its own
\* elf_to_bin applied to one artifact: the program headers an artifact can
\* carry.  X = 0xFFFFFFFE = u64(65534, 65535, 0, 0); the file has 6 bytes and
\* e_ehsize = 2.
SegmentKinds ==
  { program_header("PT_LOAD", 2, 2, u64(65534, 65535, 0, 0), TRUE),  \* [X, X+2)
    program_header("PT_LOAD", 2, 4, u64(0, 0, 1, 0), TRUE),          \* [2^32, 2^32+2)
    program_header("PT_LOAD", 1, 5, u64(3, 0, 1, 0), TRUE),          \* [X+5, X+6)
    program_header("PT_LOAD", 1, 3, u64(65535, 65535, 0, 0), TRUE),  \* [X+1, X+2)
    program_header("PT_LOAD", 1, 3, u64(65534, 65535, 0, 0), TRUE),  \* [X, X+1)
    program_header("PT_LOAD", 2, 2, u64(65535, 65535, 65535, 65535), TRUE), \* 2^64-1
    program_header("PT_LOAD", 1, 5, u64(0, 0, 2, 0), TRUE),          \* [2^33, 2^33+1)
    program_header("PT_LOAD", 1, 7, u64(4, 0, 1, 0), TRUE),          \* past the file's end
    program_header("PT_NOTE", 2, 2, u64(16, 0, 0, 0), TRUE),         \* not PT_LOAD
    program_header("PT_LOAD", 0, 2, u64(1, 0, 1, 0), TRUE),          \* empty
    program_header("PT_LOAD", 1, 1, u64(2, 0, 1, 0), TRUE),          \* inside the header
    program_header("PT_LOAD", 1, 4, u64(65533, 65535, 0, 0), FALSE) } \* not readable

ExtractArtifacts ==
  LET a(phs) == [file_ok |-> TRUE, parse_ok |-> TRUE, e_ehsize |-> 2,
                 buffer |-> <<127, 69, 11, 12, 13, 14>>, program_headers |-> phs]
  IN { a(phs) : phs \in UNION { [1..n -> SegmentKinds] : n \in 0..MaxSegments } }
       \cup { [a(<<>>) EXCEPT !.file_ok = FALSE], [a(<<>>) EXCEPT !.parse_ok = FALSE] }

InitExtract ==
  /\ pc = "extract_only"
  /\ opt = [vid |-> None, pid |-> None, chip |-> None, list_chips |-> FALSE,
            retries |-> 0, delay |-> 500]
  /\ out = <<>>
  /\ trace = <<>>
  /\ exit_status = None
  /\ panic = None
  /\ remaining = 0
  /\ bus = <<>>
  /\ handles = <<>>
  /\ found = None
  /\ binary = None
  /\ flash = None
  /\ dfu_lib = None
  /\ outcome = None
  /\ elf_input \in { Some([artifact |-> a, overflow_checks |-> oc, mem_ok |-> m]) :
                       a \in ExtractArtifacts, oc \in BOOLEAN, m \in BOOLEAN }
  /\ elf_result = None

\* utils.rs:19-62: one call of elf_to_bin
ExtractOnly ==
  /\ pc = "extract_only"
  /\ elf_result' = Some(elf_to_bin(elf_input.val.artifact, elf_input.val.overflow_checks,
                                    elf_input.val.mem_ok))
  /\ trace' = Append(trace, "elf_to_bin")
  /\ pc' = "extract_done"
  /\ UNCHANGED <<opt, out, exit_status, panic, remaining, bus, handles, found, binary,
                 flash, dfu_lib, outcome, elf_input>>

NextExtract == ExtractOnly

SpecExtract == InitExtract /\ [][NextExtract]_vars

\* ============================================================= properties
Count(ev) == Cardinality({i \in DOMAIN trace : trace[i] = ev})
Max(a, b) == IF a >= b THEN a ELSE b
IsLocateEvent(e) == e \in {"probe", "sleep"}
\* the probe attempts and waits of the search, in order
LocateTrace == SelectSeq(trace, IsLocateEvent)
\* probe, sleep, probe, sleep, ...
Alternates(s) == \A i \in DOMAIN s : s[i] = (IF i % 2 = 1 THEN "probe" ELSE "sleep")
Printed(tag) == \E i \in DOMAIN out : out[i][1] = tag
InTable(d) == \E c \in DOMAIN vendor_map : contains(vendor_map[c], <<d.vid, d.pid>>)
\* the process ended through the else branch of main.rs:91-97
AbsenceExit == pc = "exited" /\ Printed("Error finding connected devices")
\* the id pairs the active criteria accept
CandidatePairs(o) ==
  IF criteria(o) = "explicit" THEN { <<o.vid.val, o.pid.val>> }
  ELSE IF criteria(o) = "chip"
  THEN IF o.chip.val \in DOMAIN vendor_map
       THEN {vendor_map[o.chip.val][i] : i \in DOMAIN vendor_map[o.chip.val]}
       ELSE {}
  ELSE UNION { {vendor_map[c][i] : i \in DOMAIN vendor_map[c]} : c \in DOMAIN vendor_map }
NoDeviceError == [kind |-> "LibUsb", err |-> "NoDevice"]
\* the error the DFU library returned to flash_bin, if any
TransferError ==
  IF dfu_lib = None THEN None
  ELSE IF ~dfu_lib.val.ctx_ok THEN None
  ELSE IF dfu_lib.val.open_res.tag = "Err" THEN Some(dfu_lib.val.open_res.val)
  ELSE IF dfu_lib.val.dl_res.tag = "Err" THEN Some(dfu_lib.val.dl_res.val)
  ELSE None

\* ------------------------------------------------------------- C1
\* C1 as stated: when find_device returns absence with budget N = retries, it
\* has made exactly N probe attempts and max(N-1, 0) waits, each wait between
\* two probes.
C1_AsStated ==
  pc = "no_device" =>
    /\ found = None
    /\ Count("probe") = opt.retries
    /\ Count("sleep") = Max(opt.retries - 1, 0)
    /\ Alternates(LocateTrace)

\* C1 amended: when find_device returns absence with budget N = retries, it has
\* made exactly N + 1 probe attempts and N waits, the search is
\* probe (sleep probe)^N: no wait before the first or after the last attempt.
C1_RetriesPlusOne ==
  pc = "no_device" =>
    /\ found = None
    /\ handles = <<>>
    /\ Count("probe") = opt.retries + 1
    /\ Count("sleep") = opt.retries
    /\ Len(LocateTrace) = 2 * opt.retries + 1
    /\ Alternates(LocateTrace)

C1_Witness ==
  pc = "no_device" /\ opt.retries = 2 /\ criteria(opt) = "explicit" /\ Count("sleep") = 2

\* ------------------------------------------------------------- C2
\* C2: in "any known pair" mode the handle an attempt returns is on the first
\* enumerated device whose ids are in the table and that can be opened: no
\* earlier table device of the enumeration can be opened.
C2_FirstMatchReturned ==
  (criteria(opt) = "any" /\ pc = "report_found" /\ bus # <<>>) =>
    \A i \in DOMAIN bus :
      (i < found.val.idx /\ InTable(bus[i]))
        => open_device_with_vid_pid(bus, bus[i].vid, bus[i].pid) = None

\* ------------------------------------------------------------- C3
\* C3 as stated: extraction (elf_to_bin) has completed before the first probe
\* attempt, and the locator has returned a handle before flash_bin starts.
C3_AsStated ==
  \A i \in DOMAIN trace :
    /\ trace[i] = "probe" => \E j \in 1..(i - 1) : trace[j] = "elf_to_bin"
    /\ trace[i] = "flash_bin" => found.tag = "Some"

\* C3 amended: the order is locate -> extract -> flash: elf_to_bin runs at most
\* once, after every probe and wait and only once find_device returned a
\* handle; flash_bin runs at most once, after elf_to_bin returned the image.
C3_LocateExtractFlash ==
  /\ Count("elf_to_bin") <= 1
  /\ Count("flash_bin") <= 1
  /\ \A i \in DOMAIN trace :
       /\ trace[i] = "elf_to_bin" =>
            /\ found.tag = "Some"
            /\ \A j \in DOMAIN trace : IsLocateEvent(trace[j]) => j < i
       /\ trace[i] = "flash_bin" =>
            /\ binary.tag = "Some"
            /\ \E j \in 1..(i - 1) : trace[j] = "elf_to_bin"

C3_Witness ==
  pc = "exited" /\ Count("flash_bin") = 1 /\ Count("sleep") >= 1 /\ Printed("Finished")

\* ------------------------------------------------------------- C4
\* C4: an absence exit runs neither elf_to_bin nor flash_bin and has a non-zero
\* status, and no other way the process ends has that status.
C4_AbsenceStatusSpecific ==
  /\ AbsenceExit =>
       /\ exit_status # Some(SuccessExitCode)
       /\ Count("elf_to_bin") = 0
       /\ Count("flash_bin") = 0
  /\ (pc = "exited" /\ ~AbsenceExit) => exit_status # Some(AbsenceExitCode)

\* ------------------------------------------------------------- C5
\* C5: the attempt that opens a device ends the search with the handle that
\* attempt yields; after that no probe, wait or open happens; and when the
\* first attempt runs against a bus on which a pair the criteria accept can be
\* opened, find_device returns a handle at that attempt with zero waits.
C5_FirstAttemptMatch ==
  /\ Count("probe") = 1
  /\ Count("enumeration_failed") = 0
  /\ \E pr \in CandidatePairs(opt) :
       /\ \E i \in DOMAIN bus : bus[i].vid = pr[1] /\ bus[i].pid = pr[2]
       /\ open_device_with_vid_pid(bus, pr[1], pr[2]).tag = "Some"

C5_SearchEndsAtSuccess ==
  /\ [](handles # <<>> =>
          /\ found = Some(handles[Len(handles)])
          /\ LocateTrace[Len(LocateTrace)] = "probe"
          /\ pc \notin {"find_device", "sleep", "no_device"})
  /\ [](C5_FirstAttemptMatch =>
          /\ found.tag = "Some"
          /\ Count("sleep") = 0
          /\ pc = "report_found")
  /\ [][found.tag = "Some" =>
          /\ LocateTrace' = LocateTrace
          /\ handles' = handles
          /\ found' = found]_vars

C5_Witness ==
  /\ pc = "exited" /\ Printed("Finished")
  /\ opt.retries = 2 /\ Count("probe") = 2 /\ Count("sleep") = 1

\* ------------------------------------------------------------- C6
\* C6: a search by a chip name that is no key of the table opens nothing, never
\* panics, alternates probes and waits to the end of the budget exactly as a
\* search that never matches, and ends in absence.
UnknownChip == criteria(opt) = "chip" /\ opt.chip.val \notin DOMAIN vendor_map

C6_UnknownChipIsAbsence ==
  UnknownChip =>
    /\ handles = <<>>
    /\ found = None
    /\ pc \notin {"report_found", "elf_to_bin", "flash_bin"}
    /\ Alternates(LocateTrace)
    /\ Count("probe") > 0 => panic = None
    /\ (Count("probe") > 0 /\ pc = "exited") => AbsenceExit
    /\ pc \in {"no_device", "exited"} /\ Count("probe") > 0 =>
         /\ Count("probe") = opt.retries + 1
         /\ Count("sleep") = opt.retries

C6_Witness == UnknownChip /\ AbsenceExit /\ opt.retries = 2 /\ Count("sleep") = 2

\* ------------------------------------------------------------- C7
\* C7: once rusb::devices() failed in an attempt, the process has ended by the
\* panic of that attempt: the failing probe is the last operation, no wait or
\* probe follows, find_device returned nothing and no absence was reported.
C7_EnumerationFailureFatal ==
  Count("enumeration_failed") > 0 =>
    /\ pc = "exited"
    /\ panic = Some("Error with Libusb")
    /\ Count("enumeration_failed") = 1
    /\ trace[Len(trace)] = "enumeration_failed"
    /\ trace[Len(trace) - 1] = "probe"
    /\ found = None
    /\ ~Printed("Error finding connected devices")

C7_Witness ==
  Count("enumeration_failed") > 0 /\ Count("sleep") = 1 /\ opt.retries = 2

\* ------------------------------------------------------------- C8
\* C8: when the DFU library fails with LibUsb(NoDevice), the match takes the
\* benign arm: the outcome is BenignAbsence, no flashing error is printed, and
\* the run ends like a success (final report, exit status 0, no panic).
C8_NoDeviceIsBenign ==
  TransferError = Some(NoDeviceError) =>
    /\ outcome = Some([outcome |-> "BenignAbsence", cause |-> None])
    /\ ~Printed("Error flashing binary")
    /\ out[Len(out)][1] = "Finished"
    /\ pc = "exited"
    /\ exit_status = Some(SuccessExitCode)
    /\ panic = None

C8_Witness ==
  /\ TransferError = Some(NoDeviceError)
  /\ dfu_lib.val.open_res.tag = "Ok"
  /\ flash.val.downloaded # None

\* ------------------------------------------------------------- C9
\* C9: when the DFU library fails with any error e other than LibUsb(NoDevice),
\* from open or from download, the outcome is Failure, its cause is
\* UtilError::Dfu(e) with that same e, and that cause is what is printed.
C9_FailureCarriesCause ==
  (TransferError.tag = "Some" /\ TransferError.val # NoDeviceError) =>
    /\ outcome = Some([outcome |-> "Failure",
                       cause |-> Some(UtilError("Dfu", TransferError.val))])
    /\ \E i \in DOMAIN out :
         /\ out[i][1] = "Error flashing binary"
         /\ out[i][2] = UtilError("Dfu", TransferError.val)

C9_Witness ==
  /\ TransferError = Some([kind |-> "LibUsb", err |-> "Timeout"])
  /\ dfu_lib.val.open_res.tag = "Ok"
  /\ outcome.tag = "Some"

\* ------------------------------------------------------------- C10
\* C10: after the match classified the transfer as Failure the process has not
\* panicked: the error line is followed by the final report and the process
\* ends with exit status 0, the same end as after Success.
C10_FailureCompletesNormally ==
  (outcome.tag = "Some" /\ outcome.val.outcome \in {"Failure", "Success"}) =>
    /\ pc = "exited"
    /\ panic = None
    /\ exit_status = Some(SuccessExitCode)
    /\ out[Len(out)][1] = "Finished"
    /\ outcome.val.outcome = "Failure" => out[Len(out) - 1][1] = "Error flashing binary"
    /\ outcome.val.outcome = "Success" => ~Printed("Error flashing binary")

C10_Witness ==
  /\ outcome.tag = "Some" /\ outcome.val.outcome = "Failure"
  /\ pc = "exited" /\ Printed("Finished")

\* ------------------------------------------------------------- C11
\* C11: once elf_to_bin returned an error (file unreadable, not an ELF, start
\* address out of range) the process has ended by the panic of the unwrap:
\* elf_to_bin ran once, it is the last operation (no probe, wait or flash
\* follows), no image exists and flash_bin never ran.
C11_ExtractErrorAborts ==
  (elf_result.tag = "Some" /\ elf_result.val.tag = "Err") =>
    /\ pc = "exited"
    /\ panic # None
    /\ exit_status # Some(SuccessExitCode)
    /\ Count("elf_to_bin") = 1
    /\ trace[Len(trace)] = "elf_to_bin"
    /\ Count("flash_bin") = 0
    /\ binary = None
    /\ flash = None

C11_Witness ==
  /\ elf_result.tag = "Some" /\ elf_result.val.tag = "Err"
  /\ elf_result.val.val.variant = "File"
  /\ pc = "exited"

\* ------------------------------------------------------------- extraction helpers
\* the selection rule of the specification: loadable, non-empty, past the
\* header, readable
IsQualifying(p, e_ehsize) ==
  p.p_type = "PT_LOAD" /\ p.p_filesz > 0 /\ p.p_offset >= e_ehsize /\ p.is_read
QualifyingOf(a) ==
  LET T(p) == IsQualifying(p, a.e_ehsize) IN SelectSeq(a.program_headers, T)
\* the qualifying segments of the artifact under extraction
QSegs == QualifyingOf(elf_input.val.artifact)
ExtractDone == pc = "extract_done" /\ elf_input.val.artifact.file_ok
                 /\ elf_input.val.artifact.parse_ok
U64Less(a, b) == \E i \in 1..4 : a[i] < b[i] /\ \A j \in (i + 1)..4 : a[j] = b[j]
Below2_32(a) == a[3] = 0 /\ a[4] = 0
\* a 64-bit value as a natural when it is below 2^31, else -1
SmallNat(a) ==
  IF a[3] = 0 /\ a[4] = 0 /\ a[2] < 32768 THEN a[2] * 65536 + a[1] ELSE -1
EndOf(p) == u64_add(p.p_paddr, u64_from(p.p_filesz))
\* the segment's bytes are in the file
InFile(a, p) == p.p_offset + p.p_filesz <= Len(a.buffer)
\* each segment starts at or after the end of the one before it
InOrder(qs) ==
  \A i \in 2..Len(qs) :
    /\ ~EndOf(qs[i - 1]).overflow
    /\ ~U64Less(qs[i].p_paddr, EndOf(qs[i - 1]).val)
\* the gap before segment i as a natural, -1 when it is 2^31 or more
Gap(qs, i) == SmallNat(u64_sub(qs[i].p_paddr, EndOf(qs[i - 1]).val).val)
SmallGaps(qs) == \A i \in 2..Len(qs) : Gap(qs, i) >= 0
FileBytes(a, p) == SubSeq(a.buffer, p.p_offset + 1, p.p_offset + p.p_filesz)
\* s1.bytes, then for each later segment its gap in zero bytes and its bytes
RECURSIVE RefData(_, _, _)
RefData(a, qs, i) ==
  IF i = 0 THEN <<>>
  ELSE RefData(a, qs, i - 1)
         \o (IF i > 1 THEN [k \in 1..Gap(qs, i) |-> 0] ELSE <<>>)
         \o FileBytes(a, qs[i])
\* the same image by address: its length, and its non-zero bytes by offset from
\* the first address (this form also describes images of 2 GiB and more)
RefLen(qs) ==
  IF qs = <<>> THEN <<0, 0, 0, 0>>
  ELSE u64_sub(EndOf(qs[Len(qs)]).val, qs[1].p_paddr).val
RefNonzero(a, qs) ==
  { <<u64_add(u64_sub(qs[x[1]].p_paddr, qs[1].p_paddr).val, u64_from(x[2] - 1)).val,
      FileBytes(a, qs[x[1]])[x[2]]>> :
      x \in { y \in (DOMAIN qs) \X (DOMAIN a.buffer) :
                y[2] <= qs[y[1]].p_filesz /\ FileBytes(a, qs[y[1]])[y[2]] # 0 } }
\* the bytes of a returned buffer of less than 2^31 bytes, as a sequence
ByteAt(v, k) ==
  IF \E e \in v.nonzero : e[1] = u64_from(k)
  THEN (CHOOSE e \in v.nonzero : e[1] = u64_from(k))[2]
  ELSE 0
BytesOf(v) == [k \in 1..SmallNat(v.len) |-> ByteAt(v, k - 1)]
IsReferenceImage(img, a, qs) ==
  /\ img.start_address = (IF qs = <<>> THEN <<0, 0, 0, 0>> ELSE qs[1].p_paddr)
  /\ img.data.len = RefLen(qs)
  /\ img.data.nonzero = RefNonzero(a, qs)
  /\ SmallGaps(qs) =>
       /\ img.data.len = u64_from(Len(RefData(a, qs, Len(qs))))
       /\ BytesOf(img.data) = RefData(a, qs, Len(qs))

\* ------------------------------------------------------------- C12
\* C12 as stated: for every image whose qualifying segments (with their bytes
\* in the file) are in non-decreasing, non-overlapping address order,
\* elf_to_bin returns the reference image (empty with start 0 when there is
\* none).
C12_AsStated ==
  (/\ ExtractDone
   /\ InOrder(QSegs)
   /\ \A i \in DOMAIN QSegs : InFile(elf_input.val.artifact, QSegs[i])) =>
    /\ elf_result.val.tag = "Ok"
    /\ IsReferenceImage(elf_result.val.val, elf_input.val.artifact, QSegs)

\* C12 amended: the same, for images whose first qualifying address is below
\* 2^32 and whose reference image the host can allocate (less than 2 GiB, or
\* less than 2^47 bytes on a host that grants the memory): elf_to_bin returns
\* Ok(reference image), in either build.
C12_Precondition ==
  /\ InOrder(QSegs)
  /\ \A i \in DOMAIN QSegs : InFile(elf_input.val.artifact, QSegs[i])
  /\ QSegs # <<>> => Below2_32(QSegs[1].p_paddr)
  /\ \/ SmallNat(RefLen(QSegs)) >= 0
     \/ elf_input.val.mem_ok /\ RefLen(QSegs)[4] = 0 /\ RefLen(QSegs)[3] < 32768

C12_ReferenceImage ==
  (ExtractDone /\ C12_Precondition) =>
    /\ elf_result.val.tag = "Ok"
    /\ IsReferenceImage(elf_result.val.val, elf_input.val.artifact, QSegs)

C12_Witness ==
  /\ ExtractDone /\ C12_Precondition
  /\ Len(QSegs) = 3
  /\ Gap(QSegs, 2) = 0
  /\ Gap(QSegs, 3) > 0
  /\ elf_result.val.tag = "Ok"
  /\ BytesOf(elf_result.val.val.data) = <<12, 12, 0, 0, 0, 14>>

\* ------------------------------------------------------------- C13
\* C13: every image elf_to_bin returns starts at the lowest physical address of
\* the qualifying segments and its length is the span from that address to
\* their highest end address, whatever the order of the segments.
LowestStart(qs) ==
  CHOOSE x \in {qs[i].p_paddr : i \in DOMAIN qs} :
    \A i \in DOMAIN qs : ~U64Less(qs[i].p_paddr, x)
HighestEnd(qs) ==
  CHOOSE x \in {EndOf(qs[i]).val : i \in DOMAIN qs} :
    \A i \in DOMAIN qs : ~U64Less(x, EndOf(qs[i]).val)

C13_SpanInvariant ==
  (ExtractDone /\ elf_result.val.tag = "Ok" /\ QSegs # <<>>) =>
    /\ elf_result.val.val.start_address = LowestStart(QSegs)
    /\ elf_result.val.val.data.len
         = u64_sub(HighestEnd(QSegs), LowestStart(QSegs)).val

\* ------------------------------------------------------------- C14
\* C14: elf_to_bin gives the same result on the artifact and on the artifact
\* with every non-qualifying program header removed, and a returned start
\* address is the address of the first qualifying one.
Stripped(a) == [a EXCEPT !.program_headers = QualifyingOf(a)]

C14_NonQualifyingIgnored ==
  ExtractDone =>
    /\ elf_result.val = elf_to_bin(Stripped(elf_input.val.artifact),
                                   elf_input.val.overflow_checks, elf_input.val.mem_ok)
    /\ (elf_result.val.tag = "Ok" /\ QSegs # <<>>) =>
         elf_result.val.val.start_address = QSegs[1].p_paddr
    /\ (elf_result.val.tag = "Ok" /\ QSegs = <<>>) =>
         elf_result.val.val = [data |-> [len |-> <<0, 0, 0, 0>>, nonzero |-> {}],
                               start_address |-> <<0, 0, 0, 0>>]

C14_Witness ==
  /\ ExtractDone
  /\ Len(elf_input.val.artifact.program_headers) = 3
  /\ Len(QSegs) = 2
  /\ ~IsQualifying(elf_input.val.artifact.program_headers[2], 2)
  /\ ~elf_input.val.artifact.program_headers[2].is_read
  /\ elf_result.val.tag = "Ok"
  /\ elf_result.val.val.data.len = <<3, 0, 0, 0>>

\* ------------------------------------------------------------- C17
\* C17: for segments with their bytes in the file, when the first qualifying
\* address is 2^32 or more elf_to_bin returns the malformed-input error;
\* otherwise a returned start address is that address, all 64 bits of it.
C17_StartAddressChecked ==
  (/\ ExtractDone /\ QSegs # <<>>
   /\ \A i \in DOMAIN QSegs : InFile(elf_input.val.artifact, QSegs[i])) =>
    IF Below2_32(QSegs[1].p_paddr)
    THEN elf_result.val.tag = "Ok" =>
           elf_result.val.val.start_address = QSegs[1].p_paddr
    ELSE /\ elf_result.val.tag = "Err"
         /\ elf_result.val.val.variant = "Elf"

\* ------------------------------------------------------------- C15
\* C15: with the listing option the program prints one line per key of the
\* table, each key once, and ends: no project query, build, probe, wait,
\* extraction or flash happens, whatever the other options are.
C15_ListingBypassesPipeline ==
  opt.list_chips =>
    /\ pc \in {"start", "exited"}
    /\ pc = "start" => (out = <<>> /\ trace = <<>>)
    /\ pc = "exited" =>
         /\ trace = <<"list_chips">>
         /\ Len(out) = Cardinality(DOMAIN vendor_map)
         /\ \A c \in DOMAIN vendor_map :
              Cardinality({i \in DOMAIN out : out[i] = <<"chip", c>>}) = 1
         /\ exit_status = Some(SuccessExitCode)
         /\ panic = None
    /\ handles = <<>> /\ found = None /\ binary = None /\ flash = None
    /\ elf_result = None /\ outcome = None

C15_Witness ==
  /\ opt.list_chips
  /\ pc = "exited"
  /\ opt.chip = Some("nrf52") /\ opt.vid # None /\ opt.pid # None /\ opt.retries > 0
  /\ Len(out) = 2

\* ------------------------------------------------------------- C16
\* what one probe attempt printed and opened
ProbeLines == SubSeq(out', Len(out) + 1, Len(out'))
ProbeOpens == SubSeq(handles', Len(handles) + 1, Len(handles'))
\* the variant an attempt is seen to run: the explicit branch prints nothing,
\* the chip branch prints the chip name, the last branch the known-pair line
ObservedVariant ==
  IF ProbeLines = <<>> THEN "explicit"
  ELSE IF ProbeLines = << <<"Searching", "known vid/pid pair">> >> THEN "any"
  ELSE IF Len(ProbeLines) = 1 /\ ProbeLines[1][1] = "Searching" THEN "chip"
  ELSE "several"
PairSupplied(o) == o.vid # None /\ o.pid # None
\* the id pairs a variant may open
PairsOf(v, o) ==
  IF v = "explicit" THEN { <<o.vid.val, o.pid.val>> }
  ELSE IF v = "chip"
  THEN IF o.chip.val \in DOMAIN vendor_map
       THEN {vendor_map[o.chip.val][i] : i \in DOMAIN vendor_map[o.chip.val]}
       ELSE {}
  ELSE UNION { {vendor_map[c][i] : i \in DOMAIN vendor_map[c]} : c \in DOMAIN vendor_map }
RunsVariant(v) ==
  /\ ObservedVariant = v
  /\ v = "chip" => ProbeLines[1][2] = opt.chip.val
  /\ \A i \in DOMAIN ProbeOpens :
       <<ProbeOpens[i].vid, ProbeOpens[i].pid>> \in PairsOf(v, opt)

\* C16 as stated: every probe attempt runs the explicit-pair variant when a
\* pair is supplied, the chip-name variant when a chip name is supplied, and
\* the any-known-pair variant exactly when neither is supplied.
C16_AsStated ==
  [][pc = "find_device" =>
       /\ opt' = opt
       /\ PairSupplied(opt) => RunsVariant("explicit")
       /\ opt.chip # None => RunsVariant("chip")
       /\ (~PairSupplied(opt) /\ opt.chip = None) <=> ObservedVariant = "any"]_vars

\* C16 amended: every probe attempt runs exactly one variant, fixed by the
\* options: explicit-pair when a pair is supplied, chip-name when a chip name
\* and no pair is supplied, any-known-pair when neither is supplied.
C16_PairBeforeChip ==
  [][pc = "find_device" =>
       /\ opt' = opt
       /\ RunsVariant(IF PairSupplied(opt) THEN "explicit"
                      ELSE IF opt.chip # None THEN "chip" ELSE "any")]_vars

C16_Witness ==
  /\ PairSupplied(opt) /\ opt.chip = Some("stm32")
  /\ Count("probe") >= 2
  /\ found # None
  /\ <<found.val.vid, found.val.pid>> = <<opt.vid.val, opt.pid.val>>

\* ------------------------------------------------------------- C18
\* C18: over the whole search at most one handle is opened and none is
\* dropped: on success the only handle opened is the one returned, on absence
\* none was opened.
C18_OneHandleOpened ==
  /\ Len(handles) <= 1
  /\ found # None => handles = <<found.val>>
  /\ (pc = "no_device" \/ AbsenceExit) => handles = <<>>

\* ------------------------------------------------------------- C19
\* C19: when the run treats a flash attempt as benign absence the DFU session
\* had been opened and the download of the image had been issued; a NoDevice
\* error from opening the session is a failure.
C19_BenignOnlyAfterTransfer ==
  (outcome # None /\ outcome.val.outcome = "BenignAbsence") =>
    /\ flash.val.session # None
    /\ flash.val.downloaded = Some(binary.val.data)
    /\ dfu_lib.val.open_res.tag = "Ok"

\* ------------------------------------------------------------- C20
\* C20: a handle find_device returns was opened with an id pair the options
\* accept: the explicit pair, a pair of the named chip, or a pair of some
\* table entry; while the enumeration is known, the handle is open on a
\* device that has these ids.
AcceptedBy(o, pair) ==
  IF o.vid # None /\ o.pid # None THEN pair = <<o.vid.val, o.pid.val>>
  ELSE IF o.chip # None
  THEN /\ o.chip.val \in DOMAIN vendor_map
       /\ \E i \in DOMAIN vendor_map[o.chip.val] : vendor_map[o.chip.val][i] = pair
  ELSE \E c \in DOMAIN vendor_map : \E i \in DOMAIN vendor_map[c] : vendor_map[c][i] = pair

C20_HandleSatisfiesCriteria ==
  found # None =>
    /\ AcceptedBy(opt, <<found.val.vid, found.val.pid>>)
    /\ bus # <<>> =>
         /\ found.val.idx \in DOMAIN bus
         /\ bus[found.val.idx].vid = found.val.vid
         /\ bus[found.val.idx].pid = found.val.pid
         /\ bus[found.val.idx].openable

C20_Witness ==
  /\ found # None
  /\ opt.vid = None /\ opt.chip = None
  /\ Count("sleep") >= 1
  /\ Len(bus) = 2
  /\ ~InTable(bus[1]) /\ bus[1].openable
  /\ found.val.idx = 2

====
